---- MODULE Spec2Model ----
(***************************************************************************)
(* Bus-mapping of the CALLDATACOPY opcode (bus-mapping/src/evm/opcodes/    *)
(* calldatacopy.rs): the execution-state tracker's row counter, operation  *)
(* container, call frames with their memory, and the copy events the       *)
(* handler produces; and the fixed lookup tables of the keccak256 gates    *)
(* (keccak256/src/gates/tables.rs): the rows their load assigns and the    *)
(* lookups their configure declares.                                       *)
(***************************************************************************)
EXTENDS Integers, Sequences, FiniteSets, TLC

(* ------------------------------ bounds -------------------------------- *)
\* largest length operand
MaxLength == 2
\* length of the transaction input, and of the longest argument window of a call
MaxCallData == 2
\* CALLDATACOPY steps handled in one block
MaxInvocations == 2

\* the number of values of the tracker's address type (u64, usize), scaled down
\* from 2^64: operands lie in 0..WordModulus - 1 and a sum of WordModulus or more
\* overflows
WordModulus == 8

VARIABLES
    rwc,          \* state.block_ctx.rwc: the next row counter
    container,    \* state.block.container: operations in the order they were pushed
    calls,        \* the call stack; each frame carries its call_ctx (call_data, memory)
    copy_events,  \* state.block.copy_events
    steps,        \* the ExecSteps returned by the handler, in order
    tx_id,        \* state.tx_ctx.id()
    geth_steps,   \* the trace steps handed to the handler so far, in order
    result,       \* outcome of the latest handler invocation: "none", "Ok", "Err"
                  \* (an Error is returned) or "Panic" (the handler panics)
    invocations,  \* handler invocations so far
    reconstructed,\* per successful invocation, the frame's memory right after the
                  \* reconstruction pass (before gen_copy_event)
    trace,        \* the inputs of the block so far: trace steps and frame creations
    twin,         \* a second, independent tracker that is fed the same trace
    binary_to_base13, \* the region BinaryToBase13TableConfig::load assigns
    base13_to_base9,  \* the region Base13toBase9TableConfig::load assigns
    lookup        \* the latest advice row put to the base-13-to-base-9 lookup

vars == <<rwc, container, calls, copy_events, steps, tx_id, geth_steps, result,
          invocations, reconstructed, trace, twin, binary_to_base13,
          base13_to_base9, lookup>>

\* the state of the keccak256 tables
table_vars == <<binary_to_base13, base13_to_base9, lookup>>

(* --------------------------- data helpers ----------------------------- *)
Zeros(n) == [i \in 1..n |-> 0]

\* s[a..b] of a 0-based vector
Slice(s, a, b) == SubSeq(s, a + 1, b)

\* the byte at 0-based address a of a zero-extended byte vector
ByteAt(s, a) == IF a + 1 \in DOMAIN s THEN s[a + 1] ELSE 0

\* the transaction input considered: a prefix of a fixed byte pattern that holds
\* a zero byte and distinct non-zero bytes (0, 17, 18, 0, 20, ...)
InputByte(i) == IF i % 3 = 0 THEN 0 ELSE 16 + i
TxInput(n) == [i \in 1..n |-> InputByte(i - 1)]

\* a + b overflows the address type
overflows(a, b) == a + b >= WordModulus

\* a + b as a build without overflow checks computes it
wrapping_add(a, b) == (a + b) % WordModulus

\* s[a..b] is a valid range of the 0-based vector s (slicing panics otherwise)
range_ok(s, a, b) == a <= b /\ b <= Len(s)

\* faulty variant: the memory is resized to min_length, dropping what lies beyond
extend_at_least_resize(memory, min_length) ==
    IF Len(memory) < min_length
    THEN memory \o Zeros(min_length - Len(memory))
    ELSE SubSeq(memory, 1, min_length)

\* Memory::extend_at_least
extend_at_least(memory, min_length) ==
    IF Len(memory) < min_length
    THEN memory \o Zeros(min_length - Len(memory))
    ELSE memory

\* faulty variant: the bytes outside the copied range are cleared
copy_from_slice_fill(memory, start, src) ==
    [i \in 1..Len(memory) |->
        IF i > start /\ i <= start + Len(src) THEN src[i - start] ELSE 0]

\* memory.0[start..start + src.len()].copy_from_slice(src)
copy_from_slice(memory, start, src) ==
    [i \in 1..Len(memory) |->
        IF i > start /\ i <= start + Len(src) THEN src[i - start] ELSE memory[i]]

\* Stack::nth_last: the value nth from the top
nth_last(stack, nth) == stack[Len(stack) - nth]

\* Stack::nth_last_filled: the stack address of the value nth from the top
nth_last_filled(stack, nth) == 1024 - Len(stack) + nth

(* ------------------------ tracker primitives -------------------------- *)
\* A tracker value t threads the mutable state through one handler run:
\* [rwc, container, memory (of the current call), exec_step, overflow_checks (whether
\* the build panics on arithmetic overflow instead of wrapping), panicked].

StackOp(call_id, address, value) ==
    [kind |-> "Stack", call_id |-> call_id, address |-> address, value |-> value]

MemoryOp(call_id, address, value) ==
    [kind |-> "Memory", call_id |-> call_id, address |-> address, value |-> value]

CallContextOp(call_id, field, value) ==
    [kind |-> "CallContext", call_id |-> call_id, field |-> field, value |-> value]

\* number of operations of one kind already in the container
KindCount(ops, kind) == Cardinality({i \in DOMAIN ops : ops[i].op.kind = kind})

\* the operations of one kind, in order (block.container.stack / memory / call_context)
OfKind(ops, kind) == SelectSeq(ops, LAMBDA o : o.op.kind = kind)

\* CircuitInputStateRef::new_step
new_step(t) ==
    [t EXCEPT !.exec_step = [rwc |-> t.rwc, bus_mapping_instance |-> <<>>]]

\* faulty variant: the operation takes the current rwc, which is not advanced
push_op_no_inc(t, rw, op) ==
    [t EXCEPT
        !.container = Append(@, [rw |-> rw, rwc |-> t.rwc, op |-> op]),
        !.exec_step.bus_mapping_instance =
            Append(@, [target |-> op.kind, index |-> KindCount(t.container, op.kind)])]

\* CircuitInputStateRef::push_op: draw rwc.inc_pre(), insert, reference from the step
push_op(t, rw, op) ==
    [t EXCEPT
        !.rwc = @ + 1,
        !.container = Append(@, [rw |-> rw, rwc |-> t.rwc, op |-> op]),
        !.exec_step.bus_mapping_instance =
            Append(@, [target |-> op.kind, index |-> KindCount(t.container, op.kind)])]

stack_read(t, c, address, value) ==
    push_op(t, "READ", StackOp(c.call_id, address, value))

call_context_read(t, call_id, field, value) ==
    push_op(t, "READ", CallContextOp(call_id, field, value))

\* CircuitInputStateRef::memory_write: extend to cover the address, write, record;
\* a memory of address + 1 bytes must be representable
memory_write(t, c, address, value) ==
    LET extended == extend_at_least(t.memory, address + 1)
        written == [extended EXCEPT ![address + 1] = value]
    IN IF overflows(address, 1)
       THEN [t EXCEPT !.panicked = TRUE]
       ELSE push_op([t EXCEPT !.memory = written], "WRITE",
                    MemoryOp(c.call_id, address, value))

(* ----------------------- gen_calldatacopy_step ------------------------ *)
\* faulty variant: data_offset is read before memory_offset
stack_reads_swapped(t, c, stack) ==
    LET memory_offset == nth_last(stack, 0)
        data_offset == nth_last(stack, 1)
        length == nth_last(stack, 2)
        t1 == stack_read(t, c, nth_last_filled(stack, 1), data_offset)
        t2 == stack_read(t1, c, nth_last_filled(stack, 0), memory_offset)
    IN stack_read(t2, c, nth_last_filled(stack, 2), length)

\* the three stack reads: memory_offset, data_offset, length
stack_reads(t, c, stack) ==
    LET memory_offset == nth_last(stack, 0)
        data_offset == nth_last(stack, 1)
        length == nth_last(stack, 2)
        t1 == stack_read(t, c, nth_last_filled(stack, 0), memory_offset)
        t2 == stack_read(t1, c, nth_last_filled(stack, 1), data_offset)
    IN stack_read(t2, c, nth_last_filled(stack, 2), length)

\* faulty variant: the root fields are read whatever the call is
call_context_reads_root_only(t, c) ==
    LET t1 == call_context_read(t, c.call_id, "TxId", tx_id)
    IN call_context_read(t1, c.call_id, "CallDataLength", c.call_data_length)

\* the call-context reads, branching on state.call()?.is_root
call_context_reads(t, c) ==
    IF c.is_root
    THEN LET t1 == call_context_read(t, c.call_id, "TxId", tx_id)
         IN call_context_read(t1, c.call_id, "CallDataLength", c.call_data_length)
    ELSE LET t1 == call_context_read(t, c.call_id, "CallerId", c.caller_id)
             t2 == call_context_read(t1, c.call_id, "CallDataLength", c.call_data_length)
         IN call_context_read(t2, c.call_id, "CallDataOffset", c.call_data_offset)

\* faulty variant: the call-context reads are recorded in the container but not
\* referenced from the step
gen_calldatacopy_step_unreferenced(t, c, stack) ==
    LET read == stack_reads(new_step(t), c, stack)
    IN [call_context_reads(read, c) EXCEPT !.exec_step = read.exec_step]

gen_calldatacopy_step(t, c, stack) ==
    call_context_reads(stack_reads(new_step(t), c, stack), c)

(* --------------------------- reconstruction --------------------------- *)
\* faulty variant: call_data.len() - data_starts is computed unchecked, so a
\* data_offset beyond the call data panics instead of copying nothing
reconstruction_unchecked(memory, call_data, memory_offset, data_offset, length, overflow_checks) ==
    IF length # 0
    THEN LET minimal_length == wrapping_add(memory_offset, length)
             extended == extend_at_least(memory, minimal_length)
             mem_starts == memory_offset
             mem_ends == wrapping_add(mem_starts, length)
             data_starts == data_offset
             data_ends == wrapping_add(data_starts, length)
             actual_length == Len(call_data) - data_starts
             mem_code_ends == wrapping_add(mem_starts, actual_length)
         IN IF overflow_checks
               /\ (overflows(memory_offset, length) \/ overflows(data_starts, length))
            THEN [memory |-> memory, panicked |-> TRUE]
            ELSE IF data_ends <= Len(call_data)
            THEN IF /\ range_ok(extended, mem_starts, mem_ends)
                    /\ range_ok(call_data, data_starts, data_ends)
                    /\ mem_ends - mem_starts = data_ends - data_starts
                 THEN [memory |-> copy_from_slice(extended, mem_starts,
                                        Slice(call_data, data_starts, data_ends)),
                       panicked |-> FALSE]
                 ELSE [memory |-> extended, panicked |-> TRUE]
            ELSE IF Len(call_data) >= data_starts
            THEN IF /\ ~(overflow_checks /\ overflows(mem_starts, actual_length))
                    /\ range_ok(extended, mem_starts, mem_code_ends)
                 THEN [memory |-> copy_from_slice(extended, mem_starts,
                                        Slice(call_data, data_starts, Len(call_data))),
                       panicked |-> FALSE]
                 ELSE [memory |-> extended, panicked |-> TRUE]
            ELSE [memory |-> extended, panicked |-> TRUE]
    ELSE [memory |-> memory, panicked |-> FALSE]

\* faulty variant: the memory is extended to memory_offset + length whatever the
\* length, also when nothing is copied
reconstruction_eager(memory, call_data, memory_offset, data_offset, length, overflow_checks) ==
    IF TRUE
    THEN LET minimal_length == wrapping_add(memory_offset, length)
             extended == extend_at_least(memory, minimal_length)
             mem_starts == memory_offset
             mem_ends == wrapping_add(mem_starts, length)
             data_starts == data_offset
             data_ends == wrapping_add(data_starts, length)
             actual_length == Len(call_data) - data_starts
             mem_code_ends == wrapping_add(mem_starts, actual_length)
         IN IF overflow_checks
               /\ (overflows(memory_offset, length) \/ overflows(data_starts, length))
            THEN [memory |-> memory, panicked |-> TRUE]
            ELSE IF data_ends <= Len(call_data)
            THEN IF /\ range_ok(extended, mem_starts, mem_ends)
                    /\ range_ok(call_data, data_starts, data_ends)
                    /\ mem_ends - mem_starts = data_ends - data_starts
                 THEN [memory |-> copy_from_slice(extended, mem_starts,
                                        Slice(call_data, data_starts, data_ends)),
                       panicked |-> FALSE]
                 ELSE [memory |-> extended, panicked |-> TRUE]
            ELSE IF Len(call_data) >= data_starts
            THEN IF /\ ~(overflow_checks /\ overflows(mem_starts, actual_length))
                    /\ range_ok(extended, mem_starts, mem_code_ends)
                 THEN [memory |-> copy_from_slice(extended, mem_starts,
                                        Slice(call_data, data_starts, Len(call_data))),
                       panicked |-> FALSE]
                 ELSE [memory |-> extended, panicked |-> TRUE]
            ELSE [memory |-> extended, panicked |-> FALSE]
    ELSE [memory |-> memory, panicked |-> FALSE]

\* the reconstruction pass: the memory of the current call after it, and whether it
\* panicked (an overflowing sum under overflow checks, a slice out of range)
reconstruction(memory, call_data, memory_offset, data_offset, length, overflow_checks) ==
    IF length # 0
    THEN LET minimal_length == wrapping_add(memory_offset, length)
             extended == extend_at_least(memory, minimal_length)
             mem_starts == memory_offset
             mem_ends == wrapping_add(mem_starts, length)
             data_starts == data_offset
             data_ends == wrapping_add(data_starts, length)
             actual_length == Len(call_data) - data_starts
             mem_code_ends == wrapping_add(mem_starts, actual_length)
         IN IF overflow_checks
               /\ (overflows(memory_offset, length) \/ overflows(data_starts, length))
            THEN [memory |-> memory, panicked |-> TRUE]
            ELSE IF data_ends <= Len(call_data)
            THEN IF /\ range_ok(extended, mem_starts, mem_ends)
                    /\ range_ok(call_data, data_starts, data_ends)
                    /\ mem_ends - mem_starts = data_ends - data_starts
                 THEN [memory |-> copy_from_slice(extended, mem_starts,
                                        Slice(call_data, data_starts, data_ends)),
                       panicked |-> FALSE]
                 ELSE [memory |-> extended, panicked |-> TRUE]
            ELSE IF Len(call_data) >= data_starts
            THEN IF /\ ~(overflow_checks /\ overflows(mem_starts, actual_length))
                    /\ range_ok(extended, mem_starts, mem_code_ends)
                 THEN [memory |-> copy_from_slice(extended, mem_starts,
                                        Slice(call_data, data_starts, Len(call_data))),
                       panicked |-> FALSE]
                 ELSE [memory |-> extended, panicked |-> TRUE]
            ELSE [memory |-> extended, panicked |-> FALSE]
    ELSE [memory |-> memory, panicked |-> FALSE]

(* --------------------------- gen_copy_steps --------------------------- *)
\* faulty variant: the boundary address itself counts as in range
read_byte_le(c, addr, src_addr_end) ==
    IF addr <= src_addr_end
    THEN [value |-> ByteAt(c.call_data, addr - c.call_data_offset), is_pad |-> FALSE,
          panicked |-> FALSE]
    ELSE [value |-> 0, is_pad |-> TRUE, panicked |-> FALSE]

\* faulty variant: the byte after the addressed one is fetched
read_byte_next(c, addr, src_addr_end) ==
    IF addr < src_addr_end
    THEN [value |-> ByteAt(c.call_data, addr - c.call_data_offset + 1), is_pad |-> FALSE,
          panicked |-> FALSE]
    ELSE [value |-> 0, is_pad |-> TRUE, panicked |-> FALSE]

\* (value, is_pad) of the source byte at addr. Indexing the call data panics when
\* the index is out of range; for addr < call_data_offset the subtraction panics
\* under overflow checks and wraps to an index out of range without them.
read_byte(c, addr, src_addr_end) ==
    IF addr < src_addr_end
    THEN LET index == (addr - c.call_data_offset) % WordModulus
         IN IF index < Len(c.call_data)
            THEN [value |-> c.call_data[index + 1], is_pad |-> FALSE, panicked |-> FALSE]
            ELSE [value |-> 0, is_pad |-> FALSE, panicked |-> TRUE]
    ELSE [value |-> 0, is_pad |-> TRUE, panicked |-> FALSE]

\* faulty variant: the Memory Read is pushed for a root call too
source_read_always(t, c, addr, byte, is_root) ==
    IF ~byte.is_pad
    THEN push_op(t, "READ", MemoryOp(c.caller_id, addr, byte.value))
    ELSE t

\* faulty variant: the Memory Read is recorded against the current call
source_read_own_frame(t, c, addr, byte, is_root) ==
    IF ~byte.is_pad /\ ~is_root
    THEN push_op(t, "READ", MemoryOp(c.call_id, addr, byte.value))
    ELSE t

\* faulty variant: the Memory Read is addressed relative to the call data
source_read_relative(t, c, addr, byte, is_root) ==
    IF ~byte.is_pad /\ ~is_root
    THEN push_op(t, "READ",
                 MemoryOp(c.caller_id, addr - c.call_data_offset, byte.value))
    ELSE t

\* the Memory Read pushed for an in-range byte of a non-root call
source_read(t, c, addr, byte, is_root) ==
    IF ~byte.is_pad /\ ~is_root
    THEN push_op(t, "READ", MemoryOp(c.caller_id, addr, byte.value))
    ELSE t

read_copy_step(addr, is_root, byte, step_rwc) ==
    [addr |-> addr,
     tag |-> IF is_root THEN "TxCalldata" ELSE "Memory",
     rw |-> "READ",
     value |-> byte.value,
     is_code |-> "None",
     is_pad |-> byte.is_pad,
     rwc |-> step_rwc,
     rwc_inc_left |-> 0]

\* faulty variant: the Write step is stamped with the counter read after
\* memory_write has advanced it
write_copy_step_late(addr, byte, step_rwc) ==
    [addr |-> addr,
     tag |-> "Memory",
     rw |-> "WRITE",
     value |-> byte.value,
     is_code |-> "None",
     is_pad |-> FALSE,
     rwc |-> step_rwc + 1,
     rwc_inc_left |-> 0]

write_copy_step(addr, byte, step_rwc) ==
    [addr |-> addr,
     tag |-> "Memory",
     rw |-> "WRITE",
     value |-> byte.value,
     is_code |-> "None",
     is_pad |-> FALSE,
     rwc |-> step_rwc,
     rwc_inc_left |-> 0]

\* faulty variant: the Read step is stamped from a counter shared by every tracker
\* of the process instead of the tracker's own
copy_byte_shared_counter(t, c, src_addr, dst_addr, src_addr_end, is_root, idx) ==
    LET addr == wrapping_add(src_addr, idx)
        step_rwc == rwc
        byte == read_byte(c, addr, src_addr_end)
        t1 == source_read(t, c, addr, byte, is_root)
        read == read_copy_step(addr, is_root, byte, step_rwc)
        write == write_copy_step(wrapping_add(dst_addr, idx), byte, t1.rwc)
        t2 == memory_write(t1, c, wrapping_add(dst_addr, idx), byte.value)
    IN IF (t.overflow_checks /\ overflows(src_addr, idx)) \/ byte.panicked
       THEN [state |-> [t EXCEPT !.panicked = TRUE], copy_steps |-> <<>>]
       ELSE IF t.overflow_checks /\ overflows(dst_addr, idx)
       THEN [state |-> [t1 EXCEPT !.panicked = TRUE], copy_steps |-> <<read>>]
       ELSE [state |-> t2, copy_steps |-> <<read, write>>]

\* one iteration of the loop over idx; src_addr + idx and dst_addr + idx panic on
\* overflow under overflow checks and wrap without them
copy_byte(t, c, src_addr, dst_addr, src_addr_end, is_root, idx) ==
    LET addr == wrapping_add(src_addr, idx)
        step_rwc == t.rwc
        byte == read_byte(c, addr, src_addr_end)
        t1 == source_read(t, c, addr, byte, is_root)
        read == read_copy_step(addr, is_root, byte, step_rwc)
        write == write_copy_step(wrapping_add(dst_addr, idx), byte, t1.rwc)
        t2 == memory_write(t1, c, wrapping_add(dst_addr, idx), byte.value)
    IN IF (t.overflow_checks /\ overflows(src_addr, idx)) \/ byte.panicked
       THEN [state |-> [t EXCEPT !.panicked = TRUE], copy_steps |-> <<>>]
       ELSE IF t.overflow_checks /\ overflows(dst_addr, idx)
       THEN [state |-> [t1 EXCEPT !.panicked = TRUE], copy_steps |-> <<read>>]
       ELSE [state |-> t2, copy_steps |-> <<read, write>>]

\* faulty variant: the loop stops one byte early
RECURSIVE copy_loop_short(_, _, _, _, _, _, _, _)
copy_loop_short(t, c, src_addr, dst_addr, src_addr_end, bytes_left, is_root, idx) ==
    IF idx + 1 >= bytes_left \/ t.panicked
    THEN [state |-> t, copy_steps |-> <<>>]
    ELSE LET this == copy_byte(t, c, src_addr, dst_addr, src_addr_end, is_root, idx)
             rest == copy_loop_short(this.state, c, src_addr, dst_addr, src_addr_end,
                                     bytes_left, is_root, idx + 1)
         IN [state |-> rest.state, copy_steps |-> this.copy_steps \o rest.copy_steps]

RECURSIVE copy_loop(_, _, _, _, _, _, _, _)
copy_loop(t, c, src_addr, dst_addr, src_addr_end, bytes_left, is_root, idx) ==
    IF idx >= bytes_left \/ t.panicked
    THEN [state |-> t, copy_steps |-> <<>>]
    ELSE LET this == copy_byte(t, c, src_addr, dst_addr, src_addr_end, is_root, idx)
             rest == copy_loop(this.state, c, src_addr, dst_addr, src_addr_end,
                               bytes_left, is_root, idx + 1)
         IN [state |-> rest.state, copy_steps |-> this.copy_steps \o rest.copy_steps]

\* faulty variant: every remaining copy step is counted, padded Reads included
backfill_count_steps(copy_steps, final_rwc) ==
    [k \in DOMAIN copy_steps |->
        [copy_steps[k] EXCEPT !.rwc_inc_left = Len(copy_steps) - k + 1]]

\* faulty variant: the step's own row is not counted
backfill_closed(copy_steps, final_rwc) ==
    [k \in DOMAIN copy_steps |->
        [copy_steps[k] EXCEPT !.rwc_inc_left = final_rwc - copy_steps[k].rwc - 1]]

\* cs.rwc_inc_left = state.block_ctx.rwc - cs.rwc, for every step
backfill(copy_steps, final_rwc) ==
    [k \in DOMAIN copy_steps |->
        [copy_steps[k] EXCEPT !.rwc_inc_left = final_rwc - copy_steps[k].rwc]]

\* Vec::with_capacity(2 * bytes_left), the loop, the backfill
gen_copy_steps(t, c, src_addr, dst_addr, src_addr_end, bytes_left, is_root) ==
    LET done == copy_loop(t, c, src_addr, dst_addr, src_addr_end, bytes_left, is_root, 0)
    IN IF t.overflow_checks /\ overflows(bytes_left, bytes_left)
       THEN [state |-> [t EXCEPT !.panicked = TRUE], copy_steps |-> <<>>]
       ELSE [state |-> done.state,
             copy_steps |-> backfill(done.copy_steps, done.state.rwc)]

(* --------------------------- gen_copy_event --------------------------- *)
\* faulty variant: the boundary of the valid source bytes is taken relative to the
\* call data, without call_data_offset
gen_copy_event_relative(t, c, stack) ==
    LET memory_offset == nth_last(stack, 0)
        data_offset == nth_last(stack, 1)
        length == nth_last(stack, 2)
        src_addr == wrapping_add(c.call_data_offset, data_offset)
        src_addr_end == c.call_data_length
        got == gen_copy_steps(new_step(t), c, src_addr, memory_offset, src_addr_end,
                              length, c.is_root)
        overflown == \/ overflows(c.call_data_offset, data_offset)
                     \/ overflows(c.call_data_offset, c.call_data_length)
    IN [state |-> IF t.overflow_checks /\ overflown
                  THEN [t EXCEPT !.panicked = TRUE]
                  ELSE got.state,
        copy_event |->
            [src_type |-> IF c.is_root THEN "TxCalldata" ELSE "Memory",
             src_id |-> IF c.is_root THEN tx_id ELSE c.caller_id,
             src_addr |-> src_addr,
             src_addr_end |-> src_addr_end,
             dst_type |-> "Memory",
             dst_id |-> c.call_id,
             dst_addr |-> memory_offset,
             log_id |-> "None",
             length |-> length,
             steps |-> got.copy_steps,
             tx_id |-> tx_id,
             call_id |-> c.call_id]]

\* faulty variant: creating the step record of the copy event draws a row counter
gen_copy_event_counting(t, c, stack) ==
    LET memory_offset == nth_last(stack, 0)
        data_offset == nth_last(stack, 1)
        length == nth_last(stack, 2)
        src_addr == wrapping_add(c.call_data_offset, data_offset)
        src_addr_end == wrapping_add(c.call_data_offset, c.call_data_length)
        got == gen_copy_steps(new_step([t EXCEPT !.rwc = @ + 1]), c, src_addr,
                              memory_offset, src_addr_end, length, c.is_root)
        overflown == \/ overflows(c.call_data_offset, data_offset)
                     \/ overflows(c.call_data_offset, c.call_data_length)
    IN [state |-> IF t.overflow_checks /\ overflown
                  THEN [t EXCEPT !.panicked = TRUE]
                  ELSE got.state,
        copy_event |->
            [src_type |-> IF c.is_root THEN "TxCalldata" ELSE "Memory",
             src_id |-> IF c.is_root THEN tx_id ELSE c.caller_id,
             src_addr |-> src_addr,
             src_addr_end |-> src_addr_end,
             dst_type |-> "Memory",
             dst_id |-> c.call_id,
             dst_addr |-> memory_offset,
             log_id |-> "None",
             length |-> length,
             steps |-> got.copy_steps,
             tx_id |-> tx_id,
             call_id |-> c.call_id]]

gen_copy_event(t, c, stack) ==
    LET memory_offset == nth_last(stack, 0)
        data_offset == nth_last(stack, 1)
        length == nth_last(stack, 2)
        src_addr == wrapping_add(c.call_data_offset, data_offset)
        src_addr_end == wrapping_add(c.call_data_offset, c.call_data_length)
        got == gen_copy_steps(new_step(t), c, src_addr, memory_offset, src_addr_end,
                              length, c.is_root)
        overflown == \/ overflows(c.call_data_offset, data_offset)
                     \/ overflows(c.call_data_offset, c.call_data_length)
    IN [state |-> IF t.overflow_checks /\ overflown
                  THEN [t EXCEPT !.panicked = TRUE]
                  ELSE got.state,
        copy_event |->
            [src_type |-> IF c.is_root THEN "TxCalldata" ELSE "Memory",
             src_id |-> IF c.is_root THEN tx_id ELSE c.caller_id,
             src_addr |-> src_addr,
             src_addr_end |-> src_addr_end,
             dst_type |-> "Memory",
             dst_id |-> c.call_id,
             dst_addr |-> memory_offset,
             log_id |-> "None",
             length |-> length,
             steps |-> got.copy_steps,
             tx_id |-> tx_id,
             call_id |-> c.call_id]]

(* ------------------------ Calldatacopy handler ------------------------ *)
\* A tracker state is [rwc, container, calls, copy_events, steps, result]: what a
\* CircuitInputStateRef owns, and the outcome of the latest handler run.

\* faulty variant: each operand is read from the stack as soon as it is fetched
underflow_step_partial(t, c, stack) ==
    LET t1 == IF Len(stack) >= 1
              THEN stack_read(new_step(t), c, nth_last_filled(stack, 0), nth_last(stack, 0))
              ELSE new_step(t)
    IN IF Len(stack) >= 2
       THEN stack_read(t1, c, nth_last_filled(stack, 1), nth_last(stack, 1))
       ELSE t1

\* gen_calldatacopy_step up to the nth_last that fails on a stack of fewer than
\* three values: the step is created, no stack_read has been issued yet
underflow_step(t, c, stack) == new_step(t)

\* faulty variant: the block keeps the latest copy event only
push_copy_latest(events, copy_event) == <<copy_event>>

\* CircuitInputStateRef::push_copy
push_copy(events, copy_event) == Append(events, copy_event)

\* what gen_associated_ops leaves on the tracker state: a panic of the
\* reconstruction or of gen_copy_event ends the run, otherwise the copy event is
\* pushed and the step returned
gen_associated_ops_result(state, t1, rebuilt, got, exec_steps) ==
    IF rebuilt.panicked
    THEN [state EXCEPT !.rwc = t1.rwc, !.container = t1.container,
                       !.calls[Len(state.calls)].memory = rebuilt.memory,
                       !.result = "Panic"]
    ELSE IF got.state.panicked
    THEN [state EXCEPT !.rwc = got.state.rwc,
                       !.container = got.state.container,
                       !.calls[Len(state.calls)].memory = got.state.memory,
                       !.result = "Panic"]
    ELSE [state EXCEPT !.rwc = got.state.rwc,
                       !.container = got.state.container,
                       !.calls[Len(state.calls)].memory = got.state.memory,
                       !.copy_events = push_copy(@, got.copy_event),
                       !.steps = @ \o exec_steps,
                       !.result = "Ok"]

\* Calldatacopy::gen_associated_ops run on a tracker state
gen_associated_ops_on(state, stack, overflow_checks) ==
    LET c == state.calls[Len(state.calls)]
        t0 == [rwc |-> state.rwc, container |-> state.container, memory |-> c.memory,
               exec_step |-> [rwc |-> state.rwc, bus_mapping_instance |-> <<>>],
               overflow_checks |-> overflow_checks, panicked |-> FALSE]
    IN IF Len(stack) < 3
       THEN LET t1 == underflow_step(t0, c, stack)
            IN [state EXCEPT !.rwc = t1.rwc, !.container = t1.container,
                             !.result = "Err"]
       ELSE LET t1 == gen_calldatacopy_step(t0, c, stack)
                exec_steps == <<t1.exec_step>>
                memory_offset == nth_last(stack, 0)
                data_offset == nth_last(stack, 1)
                length == nth_last(stack, 2)
                rebuilt == reconstruction(c.memory, c.call_data, memory_offset,
                                          data_offset, length, overflow_checks)
                got == gen_copy_event([t1 EXCEPT !.memory = rebuilt.memory], c, stack)
            IN gen_associated_ops_result(state, t1, rebuilt, got, exec_steps)

\* a call-type instruction creates the callee's frame on a tracker state: its call
\* data is the window [args_offset, args_offset + args_length) of the caller's memory
call_on(state, args_offset, args_length) ==
    LET caller == state.calls[Len(state.calls)]
    IN [state EXCEPT !.calls = Append(@,
            [call_id |-> caller.call_id + 1, caller_id |-> caller.call_id,
             is_root |-> FALSE,
             call_data_offset |-> args_offset, call_data_length |-> args_length,
             call_data |-> [i \in 1..args_length |->
                               ByteAt(caller.memory, args_offset + i - 1)],
             memory |-> <<>>])]

(* ------------------------- keccak256 tables --------------------------- *)
\* the bases of the keccak256 arithmetic (common.rs)
B13 == 13
B9 == 9
\* the number of coefficients of a row of the binary table, and of the
\* base-13-to-base-9 table
BinaryCoefs == 16
Base13Coefs == 4

RECURSIVE Pow(_, _)
Pow(b, e) == IF e = 0 THEN 1 ELSE b * Pow(b, e - 1)

\* the Rust range lo..hi: lo, lo + 1, ... up to hi - 1, hi excluded
range(lo, hi) == [k \in 1..(IF hi > lo THEN hi - lo ELSE 0) |-> lo + k - 1]

\* (0..count).map(|_| r).multi_cartesian_product(): the number of tuples, and the
\* i-th tuple (0-based, as enumerate() numbers them): the last position varies
\* fastest
product_len(count, r) == Pow(Len(r), count)
multi_cartesian_product(count, r, i) ==
    [k \in 1..count |-> r[((i \div Pow(Len(r), count - k)) % Len(r)) + 1]]

\* coefs.iter().fold(0, |acc, x| acc * base + *x)
RECURSIVE fold(_, _)
fold(coefs, base) ==
    IF coefs = <<>>
    THEN 0
    ELSE fold(SubSeq(coefs, 1, Len(coefs) - 1), base) * base + coefs[Len(coefs)]

\* arith_helpers::convert_b13_coef: the parity of a base-13 coefficient
convert_b13_coef(x) == x % 2

\* coefs.iter().filter(|x| **x != 0).count()
non_zero_chunk_count(coefs) == Cardinality({k \in DOMAIN coefs : coefs[k] # 0})

\* faulty variant: the block count is the number of non-zero chunks
block_counting_function_count(n) == n

\* [0, 0, 1, 13, 170][n]
block_counting_function(n) == <<0, 0, 1, 13, 170>>[n + 1]

\* the coefficient ranges the two loads iterate over
binary_range == range(0, 1)
base13_range == range(0, B13)

\* the row BinaryToBase13TableConfig::load assigns at offset i
binary_to_base13_row(i) ==
    LET coefs == multi_cartesian_product(BinaryCoefs, binary_range, i)
    IN [coefs |-> coefs, binary |-> fold(coefs, 2), base13 |-> fold(coefs, B13)]

\* the row Base13toBase9TableConfig::load assigns at offset i
base13_to_base9_row(i) ==
    LET coefs == multi_cartesian_product(Base13Coefs, base13_range, i)
    IN [coefs |-> coefs,
        base13 |-> fold(coefs, B13),
        base9 |-> fold([k \in DOMAIN coefs |-> convert_b13_coef(coefs[k])], B9),
        block_count |-> block_counting_function(non_zero_chunk_count(coefs))]

\* a region before any assignment: offset counts the rows assigned, row is the
\* latest, loaded is set when load has returned
EmptyRegion == [offset |-> 0, row |-> <<>>, loaded |-> FALSE]

\* one iteration of a load: the next tuple's row is assigned at its offset; when
\* the iterator is exhausted, load returns
assign_region(region, len, row) ==
    IF region.offset < len
    THEN [region EXCEPT !.offset = @ + 1, !.row = row]
    ELSE [region EXCEPT !.loaded = TRUE]

\* the fixed columns of a row of the base-13-to-base-9 table
fixed_columns(row) ==
    [base13 |-> row.base13, base9 |-> row.base9, block_count |-> row.block_count]

\* the fixed columns of the loaded base-13-to-base-9 table, row by row
Base13toBase9Table ==
    {fixed_columns(base13_to_base9_row(i)) :
        i \in 0..(product_len(Base13Coefs, base13_range) - 1)}

\* the lookup Base13toBase9TableConfig::configure declares: the pairs of
\* (advice column queried by the input expression, fixed column of the table
\* expression), in the order of the vec!
Base13toBase9TableConfig_configure ==
    <<[input |-> "base9_coef", table |-> "base13"],
      [input |-> "base13_coef", table |-> "base9"],
      [input |-> "block_count", table |-> "block_count"]>>

\* a lookup argument holds on a row when the tuple of its input expressions,
\* q_lookup * advice, is the tuple of its table expressions on some table row
lookup_holds(pairs, q_lookup, advice, table) ==
    [c \in {pairs[p].table : p \in DOMAIN pairs} |->
        q_lookup * advice[pairs[CHOOSE p \in DOMAIN pairs : pairs[p].table = c].input]]
      \in table

(* ------------------------- the state machine -------------------------- *)
\* the call in progress and its call_ctx
call == calls[Len(calls)]

\* the tracker state the handler is run on
Tracker ==
    [rwc |-> rwc, container |-> container, calls |-> calls,
     copy_events |-> copy_events, steps |-> steps, result |-> result]

RootCall(n) ==
    [call_id |-> 1, caller_id |-> 0, is_root |-> TRUE,
     call_data_offset |-> 0, call_data_length |-> n,
     call_data |-> TxInput(n), memory |-> <<>>]

\* the state at the start of a transaction whose input has n bytes
InitWith(n) ==
    /\ rwc = 1
    /\ container = <<>>
    /\ calls = <<RootCall(n)>>
    /\ copy_events = <<>>
    /\ steps = <<>>
    /\ tx_id = 1
    /\ geth_steps = <<>>
    /\ result = "none"
    /\ invocations = 0
    /\ reconstructed = <<>>
    /\ trace = <<>>
    /\ twin = [rwc |-> 1, container |-> <<>>, calls |-> <<RootCall(n)>>,
               copy_events |-> <<>>, steps |-> <<>>, result |-> "none", pos |-> 0]
    /\ binary_to_base13 = EmptyRegion
    /\ base13_to_base9 = EmptyRegion
    /\ lookup = [kind |-> "none"]

Init == InitWith(MaxCallData)

\* the offsets considered for memory_offset and data_offset
Offsets == {0, 1}

\* the argsOffset considered for a call: the callee's call data starts past the
\* start of the caller's memory (the root call covers call_data_offset = 0)
ArgsOffsets == {1}

\* the trace steps considered: the stack holds length, data_offset, memory_offset (top)
Stacks ==
    {<<length, data_offset, memory_offset>> :
        length \in 0..MaxLength, data_offset \in Offsets, memory_offset \in Offsets}

\* trace steps whose stack misses an operand
ShortStacks == {<<>>, <<1>>, <<1, 0>>}

\* the tracker state is replaced by what the handler run left
Becomes(state) ==
    /\ rwc' = state.rwc
    /\ container' = state.container
    /\ calls' = state.calls
    /\ copy_events' = state.copy_events
    /\ steps' = state.steps
    /\ result' = state.result

\* Calldatacopy::gen_associated_ops on a well-formed step, in a build with or
\* without overflow checks
gen_associated_ops(stack, overflow_checks) ==
    /\ result \in {"none", "Ok"}
    /\ invocations < MaxInvocations
    /\ Len(stack) >= 3
    /\ LET after == gen_associated_ops_on(Tracker, stack, overflow_checks)
           rebuilt == reconstruction(call.memory, call.call_data, nth_last(stack, 0),
                                     nth_last(stack, 1), nth_last(stack, 2),
                                     overflow_checks)
       IN /\ Becomes(after)
          /\ reconstructed' = IF after.result = "Ok"
                              THEN Append(reconstructed, rebuilt.memory)
                              ELSE reconstructed
    /\ geth_steps' = Append(geth_steps, [stack |-> stack])
    /\ trace' = Append(trace, [kind |-> "step", stack |-> stack])
    /\ invocations' = invocations + 1
    /\ UNCHANGED <<tx_id, twin, table_vars>>

\* Calldatacopy::gen_associated_ops on a step whose stack misses an operand:
\* nth_last fails in gen_calldatacopy_step and the Error is returned
gen_associated_ops_underflow(stack) ==
    /\ result \in {"none", "Ok"}
    /\ invocations < MaxInvocations
    /\ Len(stack) < 3
    /\ Becomes(gen_associated_ops_on(Tracker, stack, TRUE))
    /\ geth_steps' = Append(geth_steps, [stack |-> stack])
    /\ trace' = Append(trace, [kind |-> "step", stack |-> stack])
    /\ invocations' = invocations + 1
    /\ UNCHANGED <<tx_id, reconstructed, twin, table_vars>>

\* a call-type instruction of the root call creates the callee's frame
Call(args_offset, args_length) ==
    /\ result \in {"none", "Ok"}
    /\ invocations < MaxInvocations
    /\ call.is_root
    /\ Becomes(call_on(Tracker, args_offset, args_length))
    /\ trace' = Append(trace, [kind |-> "call", args_offset |-> args_offset,
                               args_length |-> args_length])
    /\ UNCHANGED <<tx_id, geth_steps, invocations, reconstructed, twin, table_vars>>

Next ==
    \/ \E stack \in Stacks, overflow_checks \in BOOLEAN :
          gen_associated_ops(stack, overflow_checks)
    \/ \E stack \in ShortStacks : gen_associated_ops_underflow(stack)
    \/ \E args_offset \in ArgsOffsets, args_length \in 0..MaxCallData :
          Call(args_offset, args_length)

Spec == Init /\ [][Next]_vars

(* ------------------------- a second tracker -------------------------- *)
\* the twin tracker handles the next input of the trace in a run of its own
TwinReplay(overflow_checks) ==
    /\ twin.pos < Len(trace)
    /\ twin.result \in {"none", "Ok"}
    /\ LET input == trace[twin.pos + 1]
           after == IF input.kind = "call"
                    THEN call_on(twin, input.args_offset, input.args_length)
                    ELSE gen_associated_ops_on(twin, input.stack, overflow_checks)
       IN twin' = [after EXCEPT !.pos = @ + 1]
    /\ UNCHANGED <<rwc, container, calls, copy_events, steps, tx_id, geth_steps,
                   result, invocations, reconstructed, trace, table_vars>>

\* the trace steps considered with two trackers: those that copy to memory_offset 1
TwinStacks == {stack \in Stacks : nth_last(stack, 0) = 1}

TwinNext ==
    \/ \E stack \in TwinStacks, overflow_checks \in BOOLEAN :
          gen_associated_ops(stack, overflow_checks)
    \/ \E stack \in ShortStacks : gen_associated_ops_underflow(stack)
    \/ \E args_offset \in ArgsOffsets, args_length \in 0..MaxCallData :
          Call(args_offset, args_length)
    \/ \E overflow_checks \in BOOLEAN : TwinReplay(overflow_checks)

TwinSpec == Init /\ [][TwinNext]_vars

(* ------------------- operands at the end of the range ------------------ *)
\* offsets that reach the largest value of the address type
WideOffsets == {0, 1, WordModulus - 1}

WideStacks ==
    {<<length, data_offset, memory_offset>> :
        length \in 0..MaxLength, data_offset \in WideOffsets,
        memory_offset \in WideOffsets}

\* transactions with an input of any length up to MaxCallData
InitOverflow == \E n \in 0..MaxCallData : InitWith(n)

NextOverflow ==
    \/ \E stack \in WideStacks, overflow_checks \in BOOLEAN :
          gen_associated_ops(stack, overflow_checks)
    \/ \E args_offset \in ArgsOffsets, args_length \in 0..MaxCallData :
          Call(args_offset, args_length)

OverflowSpec == InitOverflow /\ [][NextOverflow]_vars

(* ---------------------- loading the keccak tables --------------------- *)
\* BinaryToBase13TableConfig::load, one iteration of its loop per step
BinaryToBase13TableConfig_load ==
    /\ ~binary_to_base13.loaded
    /\ binary_to_base13' =
          assign_region(binary_to_base13, product_len(BinaryCoefs, binary_range),
                        binary_to_base13_row(binary_to_base13.offset))
    /\ UNCHANGED <<rwc, container, calls, copy_events, steps, tx_id, geth_steps,
                   result, invocations, reconstructed, trace, twin,
                   base13_to_base9, lookup>>

\* Base13toBase9TableConfig::load, one iteration of its loop per step
Base13toBase9TableConfig_load ==
    /\ ~base13_to_base9.loaded
    /\ base13_to_base9' =
          assign_region(base13_to_base9, product_len(Base13Coefs, base13_range),
                        base13_to_base9_row(base13_to_base9.offset))
    /\ UNCHANGED <<rwc, container, calls, copy_events, steps, tx_id, geth_steps,
                   result, invocations, reconstructed, trace, twin,
                   binary_to_base13, lookup>>

\* the values considered for the two coefficient columns of an advice row, and
\* for its block_count column
AdviceCoefs == {0, 1, 9, 13, Pow(B13, Base13Coefs) - 1}
AdviceBlockCounts == {0, 1, 13, 170}

\* an advice row is put to the lookup of the loaded base-13-to-base-9 table
Lookup(q_lookup, base13_coef, base9_coef, block_count) ==
    /\ base13_to_base9.loaded
    /\ LET advice == [base13_coef |-> base13_coef, base9_coef |-> base9_coef,
                      block_count |-> block_count]
       IN lookup' = [kind |-> "row", q_lookup |-> q_lookup, advice |-> advice,
                     holds |-> lookup_holds(Base13toBase9TableConfig_configure,
                                            q_lookup, advice, Base13toBase9Table)]
    /\ UNCHANGED <<rwc, container, calls, copy_events, steps, tx_id, geth_steps,
                   result, invocations, reconstructed, trace, twin,
                   binary_to_base13, base13_to_base9>>

NextTables ==
    \/ BinaryToBase13TableConfig_load
    \/ Base13toBase9TableConfig_load
    \/ \E q_lookup \in {0, 1}, base13_coef \in AdviceCoefs, base9_coef \in AdviceCoefs,
          block_count \in AdviceBlockCounts :
          Lookup(q_lookup, base13_coef, base9_coef, block_count)

TablesSpec == Init /\ [][NextTables]_vars

(* ----------------------- vocabulary of the claims ---------------------- *)
\* The k-th successful invocation produced steps[k] and copy_events[k] from
\* geth_steps[k]; frames are never removed, so calls[id] is the frame of call id.
Invocations == DOMAIN copy_events

FrameOf(k) == calls[copy_events[k].call_id]

OperandsOf(k) ==
    LET stack == geth_steps[k].stack
    IN [memory_offset |-> stack[Len(stack)],
        data_offset |-> stack[Len(stack) - 1],
        length |-> stack[Len(stack) - 2]]

\* the row counter when invocation k ended
EndRwc(k) == IF k < Len(steps) THEN steps[k + 1].rwc ELSE rwc

\* the operations pushed by invocation k, in order: the rows from steps[k].rwc up to
\* the end of the invocation (RowsInOrder: row r is at position r of the container)
OpsOf(k) == SubSeq(container, steps[k].rwc, EndRwc(k) - 1)

\* operations without their row counter
Strip(ops) == [m \in DOMAIN ops |-> [rw |-> ops[m].rw, op |-> ops[m].op]]

\* the Read and the Write step of byte i (0-based) of a copy event
ReadStep(e, i) == e.steps[2 * i + 1]
WriteStep(e, i) == e.steps[2 * i + 2]
Bytes(e) == 0..(e.length - 1)

\* whether a copy step records an operation
Records(e, s) == s.rw = "WRITE" \/ (~s.is_pad /\ e.src_type = "Memory")

(* ------------------------------- claims ------------------------------- *)
\* C1: operations appended to the operation log in some order have strictly
\* increasing row counters in that order; no two share a row counter
\* (stated for neighbours; any i < j follows by transitivity)
CounterMonotonic ==
    \A i \in DOMAIN container :
        i < Len(container) => container[i].rwc < container[i + 1].rwc

\* the first row counter is 1 and none is skipped: row r is at position r
RowsInOrder ==
    /\ \A i \in DOMAIN container : container[i].rwc = i
    /\ rwc = Len(container) + 1

\* a Memory Read of a non-root copy is followed by the stack read of a later invocation
CounterMonotonicWitness ==
    \E i, j \in DOMAIN container :
        /\ i < j
        /\ container[i].op.kind = "Memory" /\ container[i].rw = "READ"
        /\ container[j].op.kind = "Stack"

\* C2: every CopyEvent has exactly 2 * length steps; step 2i is a Read and step
\* 2i+1 a Write, for each byte offset i in [0, length).
CopyEventLength ==
    \A k \in Invocations :
        LET e == copy_events[k]
        IN /\ Len(e.steps) = 2 * e.length
           /\ \A i \in Bytes(e) :
                ReadStep(e, i).rw = "READ" /\ WriteStep(e, i).rw = "WRITE"

\* a non-root event of two bytes or more, one of them padded
CopyEventLengthWitness ==
    \E k \in Invocations :
        LET e == copy_events[k]
        IN /\ e.length >= 2
           /\ e.src_type = "Memory"
           /\ \E i \in Bytes(e) : ReadStep(e, i).is_pad

\* C3: the Read step of byte i is padded iff src_addr + i >= src_addr_end; a padded
\* Read step has value 0.
PaddingBoundary ==
    \A k \in Invocations :
        LET e == copy_events[k]
        IN \A i \in Bytes(e) :
            /\ ReadStep(e, i).is_pad <=> (e.src_addr + i >= e.src_addr_end)
            /\ ReadStep(e, i).is_pad => ReadStep(e, i).value = 0

\* one event holds an in-range Read of a zero byte and a padded Read
PaddingBoundaryWitness ==
    \E k \in Invocations :
        LET e == copy_events[k]
        IN /\ \E i \in Bytes(e) : ~ReadStep(e, i).is_pad /\ ReadStep(e, i).value = 0
           /\ \E i \in Bytes(e) : ReadStep(e, i).is_pad
           /\ e.src_addr > 0

\* C4: for every non-padded byte i the Read and the Write step carry the same value,
\* the call-data byte at data_offset + i, and when the handler has completed the
\* memory byte of the current frame at dst_addr + i holds it.
ValueAgreement ==
    \A k \in Invocations :
        LET e == copy_events[k]
            frame == FrameOf(k)
            data_offset == OperandsOf(k).data_offset
            \* no later invocation has run in this frame
            latest == \A k2 \in Invocations :
                          k2 > k => copy_events[k2].call_id # e.call_id
        IN \A i \in Bytes(e) :
            ~ReadStep(e, i).is_pad =>
                /\ ReadStep(e, i).value = WriteStep(e, i).value
                /\ data_offset + i < Len(frame.call_data)
                /\ ReadStep(e, i).value = frame.call_data[data_offset + i + 1]
                /\ latest =>
                    /\ e.dst_addr + i < Len(frame.memory)
                    /\ frame.memory[e.dst_addr + i + 1] = ReadStep(e, i).value

\* a non-root copy of a non-zero byte from a non-zero data_offset to a non-zero
\* memory_offset
ValueAgreementWitness ==
    \E k \in Invocations :
        LET e == copy_events[k]
        IN /\ e.src_type = "Memory"
           /\ OperandsOf(k).data_offset > 0
           /\ e.dst_addr > 0
           /\ \E i \in Bytes(e) : ~ReadStep(e, i).is_pad /\ ReadStep(e, i).value # 0

\* C5: rwc_inc_left of a step is the row counter at the end of the event minus the
\* step's rwc, which is the number of Memory operations the event records at or
\* after that step; padded Reads record none.
RemainingIncrements ==
    \A k \in Invocations :
        LET e == copy_events[k]
        IN \A j \in DOMAIN e.steps :
            LET s == e.steps[j]
            IN /\ s.rwc_inc_left = EndRwc(k) - s.rwc
               /\ s.rwc_inc_left =
                    Cardinality({j2 \in DOMAIN e.steps :
                                    j2 >= j /\ Records(e, e.steps[j2])})
               /\ s.rwc_inc_left =
                    Cardinality({m \in DOMAIN container :
                                    /\ container[m].op.kind = "Memory"
                                    /\ container[m].rwc >= s.rwc
                                    /\ container[m].rwc < EndRwc(k)})

\* a non-root event with a recorded Read followed by a padded Read
RemainingIncrementsWitness ==
    \E k \in Invocations :
        LET e == copy_events[k]
        IN /\ e.src_type = "Memory"
           /\ \E i, i2 \in Bytes(e) :
                i < i2 /\ ~ReadStep(e, i).is_pad /\ ReadStep(e, i2).is_pad

\* C6 (as stated): the Write step of the last byte of every CopyEvent with
\* length > 0 has rwc_inc_left = 0.
LastStepIncrementZero ==
    \A k \in Invocations :
        LET e == copy_events[k]
        IN e.length > 0 => e.steps[Len(e.steps)].rwc_inc_left = 0

\* C6 (amended): the Write step of the last byte of every CopyEvent with
\* length > 0 has rwc_inc_left = 1: the row of its own Memory Write is still
\* counted.
LastStepIncrementOne ==
    \A k \in Invocations :
        LET e == copy_events[k]
        IN e.length > 0 =>
            /\ e.steps[Len(e.steps)].rw = "WRITE"
            /\ e.steps[Len(e.steps)].rwc_inc_left = 1

\* events of a root and of a non-root call, each of one byte or more
LastStepIncrementWitness ==
    /\ \E k \in Invocations :
        copy_events[k].length > 0 /\ copy_events[k].src_type = "Memory"
    /\ \E k \in Invocations :
        copy_events[k].length > 0 /\ copy_events[k].src_type = "TxCalldata"

\* the call-context reads of a frame, as the claim lists them
ExpectedCallContext(frame) ==
    IF frame.is_root
    THEN <<[rw |-> "READ", op |-> CallContextOp(frame.call_id, "TxId", tx_id)],
           [rw |-> "READ",
            op |-> CallContextOp(frame.call_id, "CallDataLength", frame.call_data_length)]>>
    ELSE <<[rw |-> "READ", op |-> CallContextOp(frame.call_id, "CallerId", frame.caller_id)],
           [rw |-> "READ",
            op |-> CallContextOp(frame.call_id, "CallDataLength", frame.call_data_length)],
           [rw |-> "READ",
            op |-> CallContextOp(frame.call_id, "CallDataOffset", frame.call_data_offset)]>>

\* C7: the call-context operations of an invocation are Reads of TxId then
\* CallDataLength for a root call, of CallerId, CallDataLength, CallDataOffset for a
\* non-root call, each with the current call_id and the field's value, and no others.
CallContextReads ==
    \A k \in Invocations :
        Strip(OfKind(OpsOf(k), "CallContext")) = ExpectedCallContext(FrameOf(k))

\* a root invocation and a non-root invocation whose call data has an offset
CallContextReadsWitness ==
    /\ \E k \in Invocations : FrameOf(k).is_root
    /\ \E k \in Invocations :
        ~FrameOf(k).is_root /\ FrameOf(k).call_data_offset > 0

\* C8: the first three operations of an invocation are stack Reads of the top three
\* slots, memory_offset then data_offset then length, with the values of the trace
\* step's stack; every other operation of the invocation comes after them.
StackReadsFirst ==
    \A k \in Invocations :
        LET ops == OpsOf(k)
            stack == geth_steps[k].stack
            call_id == copy_events[k].call_id
            top == 1024 - Len(stack)
        IN /\ Len(ops) >= 3
           /\ Strip(SubSeq(ops, 1, 3)) =
                <<[rw |-> "READ", op |-> StackOp(call_id, top, OperandsOf(k).memory_offset)],
                  [rw |-> "READ", op |-> StackOp(call_id, top + 1, OperandsOf(k).data_offset)],
                  [rw |-> "READ", op |-> StackOp(call_id, top + 2, OperandsOf(k).length)]>>
           /\ \A m \in 4..Len(ops) : ops[m].op.kind \in {"CallContext", "Memory"}

\* an invocation whose three operands differ
StackReadsFirstWitness ==
    \E k \in Invocations :
        /\ OperandsOf(k).memory_offset # OperandsOf(k).data_offset
        /\ OperandsOf(k).memory_offset # OperandsOf(k).length
        /\ OperandsOf(k).data_offset # OperandsOf(k).length
        /\ Len(OpsOf(k)) > 6

\* C9: a root invocation records no Memory Read and exactly length Memory Writes,
\* the i-th against the current call_id at memory_offset + i with the call-data byte
\* data_offset + i, or 0 when that index is outside the call data.
RootMemoryWrites ==
    \A k \in Invocations :
        LET frame == FrameOf(k)
            x == OperandsOf(k)
        IN frame.is_root =>
            Strip(OfKind(OpsOf(k), "Memory")) =
                [n \in 1..x.length |->
                    [rw |-> "WRITE",
                     op |-> MemoryOp(frame.call_id, x.memory_offset + n - 1,
                                     IF x.data_offset + n - 1 < Len(frame.call_data)
                                     THEN frame.call_data[x.data_offset + n]
                                     ELSE 0)]]

\* a root copy to a non-zero memory_offset with a non-zero byte and a padded byte
RootMemoryWritesWitness ==
    \E k \in Invocations :
        LET e == copy_events[k]
        IN /\ FrameOf(k).is_root
           /\ e.dst_addr > 0
           /\ \E i \in Bytes(e) : ~ReadStep(e, i).is_pad /\ ReadStep(e, i).value # 0
           /\ \E i \in Bytes(e) : ReadStep(e, i).is_pad

\* the memory operations the claim lists for bytes i.. of a non-root copy
RECURSIVE ExpectedInternalOps(_, _, _, _)
ExpectedInternalOps(frame, x, i, src_addr_end) ==
    IF i >= x.length
    THEN <<>>
    ELSE LET src == frame.call_data_offset + x.data_offset + i
             padded == src >= src_addr_end
             value == IF padded THEN 0 ELSE frame.call_data[x.data_offset + i + 1]
             read == [rw |-> "READ", op |-> MemoryOp(frame.caller_id, src, value)]
             write == [rw |-> "WRITE",
                       op |-> MemoryOp(frame.call_id, x.memory_offset + i, value)]
         IN (IF padded THEN <<write>> ELSE <<read, write>>)
                \o ExpectedInternalOps(frame, x, i + 1, src_addr_end)

\* C10: the memory operations of a non-root invocation are, for i = 0..length-1 in
\* order, a Read against the caller's call id at src_addr + i followed by a Write
\* against the current call id at dst_addr + i with the same value when byte i is
\* not padded, and the Write alone (value 0) when it is; no other memory operation.
InternalMemoryOps ==
    \A k \in Invocations :
        LET frame == FrameOf(k)
        IN ~frame.is_root =>
            Strip(OfKind(OpsOf(k), "Memory")) =
                ExpectedInternalOps(frame, OperandsOf(k), 0,
                                    frame.call_data_offset + frame.call_data_length)

\* a non-root copy of a non-zero byte followed by a padded byte
InternalMemoryOpsWitness ==
    \E k \in Invocations :
        LET e == copy_events[k]
        IN /\ ~FrameOf(k).is_root
           /\ \E i, i2 \in Bytes(e) :
                /\ i < i2
                /\ ~ReadStep(e, i).is_pad /\ ReadStep(e, i).value # 0
                /\ ReadStep(e, i2).is_pad

\* no later invocation has run in the frame of invocation k
LatestInFrame(k) ==
    \A k2 \in Invocations : k2 > k => copy_events[k2].call_id # copy_events[k].call_id

\* C11: on a step with its three operands, whatever data_offset and length (also
\* data_offset >= call_data_length and data_offset + length > call_data_length, the
\* sums in range), the handler completes without error or panic and appends its
\* event; it records length Memory Writes, at memory_offset + i for i in [0, length);
\* and when it has completed every destination byte whose source is out of range is
\* 0 in the frame's memory.
OutOfRangeCompletes ==
    /\ result # "Panic"
    /\ \A n \in DOMAIN geth_steps :
        Len(geth_steps[n].stack) >= 3 => n \in Invocations
    /\ \A k \in Invocations :
        LET e == copy_events[k]
            frame == FrameOf(k)
            x == OperandsOf(k)
            writes == SelectSeq(OfKind(OpsOf(k), "Memory"), LAMBDA o : o.rw = "WRITE")
        IN /\ Len(writes) = x.length
           /\ \A i \in Bytes(e) :
                /\ writes[i + 1].op.call_id = frame.call_id
                /\ writes[i + 1].op.address = x.memory_offset + i
                /\ (LatestInFrame(k) /\ x.data_offset + i >= frame.call_data_length) =>
                    /\ x.memory_offset + i < Len(frame.memory)
                    /\ frame.memory[x.memory_offset + i + 1] = 0

\* an invocation reaching past the end of the call data pads a destination byte to
\* which an earlier invocation of the same frame copied a non-zero byte
OutOfRangeCompletesWitness ==
    \E k1, k2 \in Invocations :
        LET e1 == copy_events[k1]
            e2 == copy_events[k2]
        IN /\ k1 < k2
           /\ e1.call_id = e2.call_id
           /\ \E i1 \in Bytes(e1), i2 \in Bytes(e2) :
                /\ WriteStep(e1, i1).value # 0
                /\ ReadStep(e2, i2).is_pad
                /\ WriteStep(e1, i1).addr = WriteStep(e2, i2).addr

\* C12: the CopyEvent of an invocation has src_addr = call_data_offset + data_offset,
\* src_addr_end = call_data_offset + call_data_length, dst_addr = memory_offset,
\* length = the length operand, dst_type Memory, dst_id the current call_id, no
\* log_id, and (src_type, src_id) = (TxCalldata, tx id) for a root call, (Memory,
\* caller_id) for a non-root call; the Read step of byte i has addr src_addr + i and
\* the source tag, the Write step has addr dst_addr + i and tag Memory.
CopyEventFields ==
    \A k \in Invocations :
        LET e == copy_events[k]
            frame == FrameOf(k)
            x == OperandsOf(k)
        IN /\ e.src_addr = frame.call_data_offset + x.data_offset
           /\ e.src_addr_end = frame.call_data_offset + frame.call_data_length
           /\ e.dst_addr = x.memory_offset
           /\ e.length = x.length
           /\ e.dst_type = "Memory"
           /\ e.dst_id = frame.call_id
           /\ e.log_id = "None"
           /\ frame.is_root => e.src_type = "TxCalldata" /\ e.src_id = tx_id
           /\ ~frame.is_root => e.src_type = "Memory" /\ e.src_id = frame.caller_id
           /\ \A i \in Bytes(e) :
                /\ ReadStep(e, i).addr = e.src_addr + i
                /\ ReadStep(e, i).tag = e.src_type
                /\ WriteStep(e, i).addr = e.dst_addr + i
                /\ WriteStep(e, i).tag = "Memory"

\* events of a root and of a non-root call, the latter of two bytes from a non-zero
\* data_offset of call data that has an offset and a length of its own
CopyEventFieldsWitness ==
    /\ \E k \in Invocations : FrameOf(k).is_root /\ copy_events[k].length > 0
    /\ \E k \in Invocations :
        /\ ~FrameOf(k).is_root
        /\ FrameOf(k).call_data_offset > 0
        /\ FrameOf(k).call_data_length > 0
        /\ OperandsOf(k).data_offset > 0
        /\ OperandsOf(k).memory_offset > 0
        /\ copy_events[k].length >= 2

\* C13: the operation log and the copy-event list only grow by appending: in every
\* step each operation and each CopyEvent (with all its steps, their rwc and
\* rwc_inc_left) stays unchanged at its index.
AppendOnly ==
    [][/\ Len(container') >= Len(container)
       /\ SubSeq(container', 1, Len(container)) = container
       /\ Len(copy_events') >= Len(copy_events)
       /\ SubSeq(copy_events', 1, Len(copy_events)) = copy_events]_vars

\* a later invocation has completed after one that left an event with steps
AppendOnlyWitness ==
    /\ Len(copy_events) >= 2
    /\ copy_events[1].length > 0
    /\ copy_events[2].length > 0
    /\ result = "Ok"

\* the Memory Writes to the key of operation o with a smaller row counter
WritesBefore(o) ==
    {w \in DOMAIN container :
        /\ container[w].rwc < o.rwc
        /\ container[w].op.kind = "Memory" /\ container[w].rw = "WRITE"
        /\ container[w].op.call_id = o.op.call_id
        /\ container[w].op.address = o.op.address}

UnderflowLeavesState ==
    [][(/\ invocations' = invocations + 1
        /\ Len(geth_steps'[Len(geth_steps')].stack) < 3) =>
            /\ result' = "Err"
            /\ container' = container
            /\ rwc' = rwc
            /\ calls' = calls
            /\ copy_events' = copy_events]_vars

\* a step with two values on its stack has failed after an invocation that copied
\* bytes into the frame's memory
UnderflowLeavesStateWitness ==
    /\ result = "Err"
    /\ Len(geth_steps[Len(geth_steps)].stack) = 2
    /\ copy_events # <<>>
    /\ call.memory # <<>>

\* the frame in which the n-th trace step was handled: a step that did not
\* complete is the last one, handled in the call in progress
FrameOfStep(n) == IF n \in Invocations THEN FrameOf(n) ELSE call

\* one of the sums the handler forms from the operands of the n-th trace step
\* exceeds the address type
SumOverflows(n) ==
    LET stack == geth_steps[n].stack
        memory_offset == stack[Len(stack)]
        data_offset == stack[Len(stack) - 1]
        length == stack[Len(stack) - 2]
    IN \/ overflows(memory_offset, length)
       \/ overflows(FrameOfStep(n).call_data_offset, data_offset)
       \/ overflows(data_offset, length)

\* C16 (as stated): if memory_offset + length, call_data_offset + data_offset or
\* data_offset + length exceeds the address type, the handler stops with a fatal
\* error and appends no CopyEvent.
OverflowIsFatal ==
    \A n \in DOMAIN geth_steps :
        (Len(geth_steps[n].stack) >= 3 /\ SumOverflows(n)) =>
            /\ n \notin Invocations
            /\ result \in {"Err", "Panic"}

ReconstructionMatchesWrites ==
    \A k \in Invocations :
        LET x == OperandsOf(k)
            frame == FrameOf(k)
            memory == reconstructed[k]
        IN \A i \in 0..(x.length - 1) :
            /\ x.memory_offset + i < Len(memory)
            /\ memory[x.memory_offset + i + 1] =
                 IF x.data_offset + i < Len(frame.call_data)
                 THEN frame.call_data[x.data_offset + i + 1]
                 ELSE 0

\* the operation of the log that was assigned row counter r is operation op in
\* direction rw (row r is at position r of the container)
RowIs(r, rw, op) ==
    /\ r \in DOMAIN container
    /\ container[r].rwc = r
    /\ container[r].rw = rw
    /\ container[r].op = op

\* C19: the rwc of every Write CopyStep is the row counter of the Memory Write
\* recorded for its byte; the rwc of a Read CopyStep is the row counter of its
\* Memory Read when one is recorded (non-root, not padded) and the rwc of its paired
\* Write step otherwise (padded, or root call).
StepCounters ==
    \A k \in Invocations :
        LET e == copy_events[k]
            frame == FrameOf(k)
        IN \A i \in Bytes(e) :
            LET read == ReadStep(e, i)
                write == WriteStep(e, i)
            IN /\ RowIs(write.rwc, "WRITE",
                        MemoryOp(frame.call_id, e.dst_addr + i, write.value))
               /\ IF ~read.is_pad /\ ~frame.is_root
                  THEN RowIs(read.rwc, "READ",
                             MemoryOp(frame.caller_id, e.src_addr + i, read.value))
                  ELSE read.rwc = write.rwc

\* a non-root event with a recorded Read followed by a padded Read, after a root
\* event with a byte in range
StepCountersWitness ==
    /\ \E k \in Invocations :
        LET e == copy_events[k]
        IN /\ ~FrameOf(k).is_root
           /\ \E i, i2 \in Bytes(e) :
                i < i2 /\ ~ReadStep(e, i).is_pad /\ ReadStep(e, i2).is_pad
    /\ \E k \in Invocations :
        LET e == copy_events[k]
        IN /\ FrameOf(k).is_root
           /\ \E i \in Bytes(e) : ~ReadStep(e, i).is_pad

\* the stack and call-context reads of an invocation in frame `frame`
ReadsBeforeCopy(frame) == IF frame.is_root THEN 5 ELSE 6

\* C20: the reconstruction pass and the creation of the copy event's step record
\* draw no row counter and append no operation: the first CopyStep's rwc is the
\* starting row counter of the instruction plus its stack and call-context reads
\* (5 for a root call, 6 for a non-root call), every row counter drawn belongs to
\* an operation of the log, and the invocation's operations are those reads
\* followed by Memory operations only.
CopyStartsAfterReads ==
    /\ rwc = Len(container) + 1
    /\ \A k \in Invocations :
        LET e == copy_events[k]
            n == ReadsBeforeCopy(FrameOf(k))
            ops == OpsOf(k)
        IN /\ e.length > 0 => e.steps[1].rwc = steps[k].rwc + n
           /\ Len(ops) >= n
           /\ \A m \in 1..n : ops[m].op.kind \in {"Stack", "CallContext"}
           /\ \A m \in (n + 1)..Len(ops) : ops[m].op.kind = "Memory"
           /\ e.length = 0 => Len(ops) = n

\* a root invocation that extends the memory and copies call data, and a non-root
\* invocation after it that copies a byte in range
CopyStartsAfterReadsWitness ==
    /\ \E k \in Invocations :
        /\ FrameOf(k).is_root /\ copy_events[k].length > 0
        /\ Len(reconstructed[k]) > 0
    /\ \E k \in Invocations :
        /\ ~FrameOf(k).is_root /\ steps[k].rwc > 1
        /\ \E i \in Bytes(copy_events[k]) : ~ReadStep(copy_events[k], i).is_pad

\* the operation a reference of a step designates: the index-th operation (0-based)
\* among those of its target kind
Referenced(ref, of_kind) == of_kind[ref.target][ref.index + 1]

\* C21: the ExecStep returned by an invocation references exactly the operations the
\* invocation pushed before the copy, in order: the 3 stack reads, then the
\* call-context reads (5 references for a root call, 6 for a non-root call); the
\* Memory operations of the copy event are in the container and none of them is
\* referenced by the step.
StepReferences ==
    LET of_kind == [kind \in {"Stack", "CallContext", "Memory"} |->
                       OfKind(container, kind)]
    IN \A k \in Invocations :
        LET refs == steps[k].bus_mapping_instance
            ops == OpsOf(k)
        IN /\ Len(refs) = IF FrameOf(k).is_root THEN 5 ELSE 6
           /\ Len(ops) >= Len(refs)
           /\ \A m \in DOMAIN refs :
                /\ refs[m].target = IF m <= 3 THEN "Stack" ELSE "CallContext"
                /\ Referenced(refs[m], of_kind) = ops[m]
                /\ Referenced(refs[m], of_kind).op.kind # "Memory"
           /\ \A s \in DOMAIN copy_events[k].steps :
                LET cs == copy_events[k].steps[s]
                IN Records(copy_events[k], cs) =>
                     /\ cs.rwc \in DOMAIN container
                     /\ container[cs.rwc].op.kind = "Memory"

\* a root invocation and a later non-root invocation that both record Memory
\* operations, the later one Memory Reads too
StepReferencesWitness ==
    /\ \E k \in Invocations : FrameOf(k).is_root /\ copy_events[k].length > 0
    /\ \E k \in Invocations :
        /\ k > 1
        /\ ~FrameOf(k).is_root
        /\ \E s \in DOMAIN copy_events[k].steps :
              copy_events[k].steps[s].rw = "READ" /\ ~copy_events[k].steps[s].is_pad

\* the larger of two lengths
Max(a, b) == IF a >= b THEN a ELSE b

\* C22: a handler invocation never shortens the memory of the current frame; after
\* a successful invocation with length > 0 the memory has max(previous length,
\* memory_offset + length) bytes, and every byte beyond the previous length that
\* lies outside [memory_offset, memory_offset + length) is 0.
MemoryGrows ==
    [][invocations' = invocations + 1 =>
         LET stack == geth_steps'[Len(geth_steps')].stack
             before == call.memory
             after == calls'[Len(calls')].memory
         IN /\ Len(calls') = Len(calls)
            /\ Len(after) >= Len(before)
            /\ (result' = "Ok" /\ nth_last(stack, 2) > 0) =>
                 LET memory_offset == nth_last(stack, 0)
                     length == nth_last(stack, 2)
                 IN /\ Len(after) = Max(Len(before), memory_offset + length)
                    /\ \A i \in Len(before)..(Len(after) - 1) :
                         (i < memory_offset \/ i >= memory_offset + length) =>
                            after[i + 1] = 0]_vars

\* a frame's first copy went past the start of its empty memory, leaving a gap, and
\* a later copy of the same frame ended before the end of its memory
MemoryGrowsWitness ==
    \E k1, k2 \in Invocations :
        /\ k1 < k2
        /\ copy_events[k1].call_id = copy_events[k2].call_id
        /\ \A k \in Invocations : k < k1 => copy_events[k].call_id # copy_events[k1].call_id
        /\ OperandsOf(k1).memory_offset > 0
        /\ OperandsOf(k1).length > 0
        /\ OperandsOf(k2).length > 0
        /\ OperandsOf(k2).memory_offset + OperandsOf(k2).length
             < OperandsOf(k1).memory_offset + OperandsOf(k1).length

\* C23: a successful handler invocation appends exactly one CopyEvent, and every
\* operation the event's steps designate is in the container by then; when length
\* is 0 the event has no steps, no Memory operation is recorded, the row counter
\* advances by the stack and call-context reads only, and the frame's memory is
\* left as it was, whatever memory_offset is.
OneEventPerInvocation ==
    [][(invocations' = invocations + 1 /\ result' = "Ok") =>
         LET stack == geth_steps'[Len(geth_steps')].stack
             event == copy_events'[Len(copy_events')]
             pushed == SubSeq(container', Len(container) + 1, Len(container'))
         IN /\ Len(copy_events') = Len(copy_events) + 1
            /\ SubSeq(copy_events', 1, Len(copy_events)) = copy_events
            /\ event.call_id = call.call_id
            /\ rwc' = rwc + Len(pushed)
            /\ \A s \in DOMAIN event.steps :
                 /\ event.steps[s].rwc >= rwc
                 /\ Records(event, event.steps[s]) =>
                      event.steps[s].rwc - rwc + 1 \in DOMAIN pushed
            /\ nth_last(stack, 2) = 0 =>
                 /\ event.length = 0
                 /\ event.steps = <<>>
                 /\ \A m \in DOMAIN pushed : pushed[m].op.kind # "Memory"
                 /\ rwc' = rwc + ReadsBeforeCopy(call)
                 /\ calls' = calls]_vars

\* a copy of length 0 to a memory_offset beyond the frame's memory has completed
\* in a root and in a non-root frame
OneEventPerInvocationWitness ==
    /\ \E k \in Invocations :
        /\ OperandsOf(k).length = 0
        /\ OperandsOf(k).memory_offset > Len(FrameOf(k).memory)
        /\ FrameOf(k).is_root
    /\ \E k \in Invocations :
        /\ OperandsOf(k).length = 0
        /\ OperandsOf(k).memory_offset > Len(FrameOf(k).memory)
        /\ ~FrameOf(k).is_root

\* the call-context fields and the call data buffer of a frame
ContextOf(frame) ==
    [call_id |-> frame.call_id, caller_id |-> frame.caller_id,
     is_root |-> frame.is_root, call_data_offset |-> frame.call_data_offset,
     call_data_length |-> frame.call_data_length, call_data |-> frame.call_data]

\* C24: a handler invocation leaves unchanged the frames below the current one
\* (the caller's memory among them), the current frame's call data buffer and
\* call-context fields, and every byte of the current frame's memory below its
\* previous length that lies outside [memory_offset, memory_offset + length).
FrameEffect ==
    [][invocations' = invocations + 1 =>
         LET stack == geth_steps'[Len(geth_steps')].stack
             before == call.memory
             after == calls'[Len(calls')].memory
         IN /\ Len(calls') = Len(calls)
            /\ \A f \in 1..(Len(calls) - 1) : calls'[f] = calls[f]
            /\ ContextOf(calls'[Len(calls')]) = ContextOf(call)
            /\ Len(after) >= Len(before)
            /\ \A i \in 0..(Len(before) - 1) :
                 (\/ Len(stack) < 3
                  \/ i < nth_last(stack, 0)
                  \/ i >= nth_last(stack, 0) + nth_last(stack, 2)) =>
                      after[i + 1] = before[i + 1]]_vars

\* a copy has completed in a callee whose call data is taken at an offset of a
\* caller memory that holds non-zero bytes
FrameEffectWitness ==
    \E k \in Invocations :
        /\ ~FrameOf(k).is_root
        /\ OperandsOf(k).length > 0
        /\ FrameOf(k).call_data_offset > 0
        /\ \E b \in DOMAIN FrameOf(k).call_data : FrameOf(k).call_data[b] # 0
        /\ \E b \in DOMAIN calls[FrameOf(k).caller_id].memory :
              calls[FrameOf(k).caller_id].memory[b] # 0
        /\ \E b \in DOMAIN FrameOf(k).memory : FrameOf(k).memory[b] # 0

\* C25 (as stated): BinaryToBase13TableConfig::load assigns one row for every
\* 16-bit value, 2^16 rows with each value once: the row at offset i has 16
\* coefficients that are bits, its binary column is the value of those bits, which
\* is i, and its base13 column is the same coefficients evaluated in base 13.
BinaryTableComplete ==
    /\ binary_to_base13.offset > 0 =>
         LET row == binary_to_base13.row
         IN /\ Len(row.coefs) = BinaryCoefs
            /\ \A k \in DOMAIN row.coefs : row.coefs[k] \in {0, 1}
            /\ row.binary = fold(row.coefs, 2)
            /\ row.binary = binary_to_base13.offset - 1
            /\ row.base13 = fold(row.coefs, B13)
    /\ binary_to_base13.loaded => binary_to_base13.offset = Pow(2, BinaryCoefs)

\* C26 (as stated): an enabled advice row on which the base-13-to-base-9 lookup
\* holds is a row of the loaded table: the table has a row whose base13, base9 and
\* block_count entries are the advice row's base13_coef, base9_coef and block_count.
LookupMatchesColumns ==
    (lookup.kind = "row" /\ lookup.q_lookup = 1 /\ lookup.holds) =>
        [base13 |-> lookup.advice.base13_coef,
         base9 |-> lookup.advice.base9_coef,
         block_count |-> lookup.advice.block_count] \in Base13toBase9Table

\* C27: Base13toBase9TableConfig::load assigns one row for every tuple of 4 base-13
\* coefficients, 13^4 rows with each tuple once (the row at offset i holds the
\* tuple whose base-13 value is i), and the row's block_count is 0, 0, 1, 13 or 170
\* when the tuple has 0, 1, 2, 3 or 4 non-zero coefficients.
Base13TableComplete ==
    /\ base13_to_base9.offset > 0 =>
         LET row == base13_to_base9.row
             non_zero == Cardinality({k \in DOMAIN row.coefs : row.coefs[k] # 0})
         IN /\ Len(row.coefs) = 4
            /\ \A k \in DOMAIN row.coefs : row.coefs[k] \in 0..12
            /\ row.base13 = row.coefs[1] * 2197 + row.coefs[2] * 169
                              + row.coefs[3] * 13 + row.coefs[4]
            /\ row.base13 = base13_to_base9.offset - 1
            /\ non_zero = 0 => row.block_count = 0
            /\ non_zero = 1 => row.block_count = 0
            /\ non_zero = 2 => row.block_count = 1
            /\ non_zero = 3 => row.block_count = 13
            /\ non_zero = 4 => row.block_count = 170
    /\ base13_to_base9.loaded => base13_to_base9.offset = 13 * 13 * 13 * 13

\* the load has returned after assigning the row of the tuple (12, 12, 12, 12),
\* whose four coefficients are non-zero
Base13TableCompleteWitness ==
    /\ base13_to_base9.loaded
    /\ base13_to_base9.row.coefs = <<12, 12, 12, 12>>
    /\ base13_to_base9.row.block_count = 170

====
